---- MODULE Spec2Model ----
(***************************************************************************)
(* A model of the tutorial loader and its visitors (package program of     *)
(* mdrip): the desirability filters, scanFile/scanDir, LoadOne/LoadMany,   *)
(* the Lesson/Course/TopCourse tree and the TutorialPrinter and            *)
(* TutorialParser visitors.  File names are sequences of one-character     *)
(* strings so that extensions and leading characters are computed, not     *)
(* assumed.                                                                *)
(***************************************************************************)
EXTENDS Integers, Sequences, FiniteSets, TLC

VARIABLES fs, called, args, tree, err, panicked, printer, parser, nav, done

vars == <<fs, called, args, tree, err, panicked, printer, parser, nav, done>>

(***************************************************************************)
(* Bounds of the model.                                                    *)
(***************************************************************************)
MaxNodes == 3

(***************************************************************************)
(* Program constants.                                                      *)
(***************************************************************************)
badLeadingChar == <<"~", ".", "#">>
IndentStep == 3
SampleLen == 60

(***************************************************************************)
(* File names and the entries a filesystem can hold.                       *)
(***************************************************************************)
MdExt == <<".", "m", "d">>
NameDot == <<".">>
NameDotSlash == <<".", "/">>
NameDotDot == <<".", ".">>

FileEntry(name, regular, statErr, ioErr, content) ==
    [name |-> name, isDir |-> FALSE, isRegular |-> regular,
     statErr |-> statErr, ioErr |-> ioErr, content |-> content]

DirEntry(name, ioErr) ==
    [name |-> name, isDir |-> TRUE, isRegular |-> FALSE,
     statErr |-> FALSE, ioErr |-> ioErr, content |-> <<>>]

ContentX == <<"x">>
ContentY == <<"y">>

EntryKinds ==
    { FileEntry(<<"a", ".", "m", "d">>, TRUE, FALSE, FALSE, ContentX),
      FileEntry(<<"b", ".", "m", "d">>, TRUE, FALSE, FALSE, ContentY),
      FileEntry(<<"c", ".", "m", "d">>, TRUE, FALSE, TRUE, <<>>),
      FileEntry(<<"n", ".", "t", "x", "t">>, TRUE, FALSE, FALSE, ContentX),
      FileEntry(<<"~", "t", ".", "m", "d">>, TRUE, FALSE, FALSE, ContentX),
      FileEntry(<<".", "m", "d">>, TRUE, FALSE, FALSE, ContentX),
      FileEntry(<<"#", "s", ".", "m", "d">>, TRUE, FALSE, FALSE, ContentX),
      FileEntry(<<"p", ".", "m", "d">>, FALSE, FALSE, FALSE, <<>>),
      FileEntry(<<"g", ".", "m", "d">>, TRUE, TRUE, FALSE, <<>>),
      DirEntry(<<"d">>, FALSE),
      DirEntry(<<"d", ".", "m", "d">>, FALSE),
      DirEntry(<<".", "g", "i", "t">>, FALSE),
      DirEntry(<<"e">>, TRUE),
      DirEntry(NameDot, FALSE) }

\* The names "." and ".." only occur as paths given by the caller, never as
\* entries of a directory listing.
RootOnlyName(name) == name \in {NameDot, NameDotSlash, NameDotDot}

Node(parent, k) ==
    [parent |-> parent, name |-> k.name, isDir |-> k.isDir,
     isRegular |-> k.isRegular, statErr |-> k.statErr, ioErr |-> k.ioErr,
     content |-> k.content]

\* The nodes that can be added to filesystem s: under the top level (parent
\* 0) or under an existing directory, with a name no sibling has.
ValidNodes(s) ==
    { nd \in { Node(p, k) : p \in 0..Len(s), k \in EntryKinds } :
        /\ nd.parent # 0 => (s[nd.parent].isDir /\ ~s[nd.parent].statErr)
        /\ RootOnlyName(nd.name) => nd.parent = 0
        /\ \A i \in 1..Len(s) :
              s[i].parent = nd.parent => s[i].name # nd.name }

(***************************************************************************)
(* model.FilePath: a path is the sequence of its components.               *)
(***************************************************************************)
Join(d, f) == Append(d, f)

Base(p) == IF Len(p) = 0 THEN NameDot ELSE p[Len(p)]

\* The index of the entry called name under parent, 0 when there is none.
Lookup(f, parent, name) ==
    LET hits == { i \in 1..Len(f) : f[i].parent = parent /\ f[i].name = name }
    IN IF hits = {} THEN 0 ELSE CHOOSE i \in hits : TRUE

RECURSIVE ResolveFrom(_, _, _, _)
ResolveFrom(f, p, i, at) ==
    IF i > Len(p) THEN at
    ELSE LET nxt == Lookup(f, at, p[i])
         IN IF nxt = 0 THEN 0 ELSE ResolveFrom(f, p, i + 1, nxt)

Resolve(f, p) == IF Len(p) = 0 THEN 0 ELSE ResolveFrom(f, p, 1, 0)

NoErr == [msg |-> "nil", path |-> <<>>]
ErrorOf(msg, path) == [msg |-> msg, path |-> path]

\* os.Stat: the FileInfo of the path, or an error and a nil FileInfo.
Stat(f, p) ==
    LET i == Resolve(f, p)
    IN IF i = 0 \/ f[i].statErr
       THEN [isNil |-> TRUE, err |-> ErrorOf("stat", p), name |-> <<>>,
             isDir |-> FALSE, isRegular |-> FALSE]
       ELSE [isNil |-> FALSE, err |-> NoErr, name |-> Base(p),
             isDir |-> f[i].isDir, isRegular |-> f[i].isRegular]

\* FilePath.Read
Read(f, p) ==
    LET i == Resolve(f, p)
    IN IF i = 0 \/ f[i].isDir \/ f[i].ioErr
       THEN [contents |-> <<>>, err |-> ErrorOf("read", p)]
       ELSE [contents |-> f[i].content, err |-> NoErr]

RECURSIVE ChildNames(_, _, _)
ChildNames(f, parent, i) ==
    IF i > Len(f) THEN <<>>
    ELSE IF f[i].parent = parent
         THEN <<f[i].name>> \o ChildNames(f, parent, i + 1)
         ELSE ChildNames(f, parent, i + 1)

\* FilePath.ReadDir: the entries of the directory in listing order.
ReadDir(f, p) ==
    LET i == Resolve(f, p)
    IN IF i = 0 \/ ~f[i].isDir \/ f[i].ioErr
       THEN [files |-> <<>>, err |-> ErrorOf("readdir", p)]
       ELSE [files |-> ChildNames(f, i, 1), err |-> NoErr]

(***************************************************************************)
(* path/filepath and strings helpers.                                      *)
(***************************************************************************)
\* filepath.Ext: the suffix beginning at the final dot, empty if no dot.
Ext(name) ==
    LET dots == { i \in 1..Len(name) : name[i] = "." }
    IN IF dots = {} THEN <<>>
       ELSE LET last == CHOOSE i \in dots : \A j \in dots : j <= i
            IN SubSeq(name, last, Len(name))

\* strings.Index(chars, c) > -1
IndexIn(chars, c) == \E i \in 1..Len(chars) : chars[i] = c

HasPrefix(name, c) == Len(name) > 0 /\ name[1] = c

(***************************************************************************)
(* The desirability filters.  A filter returns a boolean, or panics when   *)
(* it dereferences the nil FileInfo of a failed Stat.                      *)
(***************************************************************************)
Returns(b) == [panic |-> FALSE, val |-> b]
Panics == [panic |-> TRUE, val |-> FALSE]

isDesirableFile(f, n) ==
    LET s == Stat(f, n)
    IN IF s.err # NoErr
       THEN (IF s.isNil THEN Panics ELSE Returns(FALSE))
       ELSE IF s.isDir THEN Returns(FALSE)
       ELSE IF ~s.isRegular THEN Returns(FALSE)
       ELSE IF Ext(s.name) # MdExt THEN Returns(FALSE)
       ELSE IF IndexIn(badLeadingChar, s.name[1]) THEN Returns(FALSE)
       ELSE Returns(TRUE)

isDesirableDir(f, n) ==
    LET s == Stat(f, n)
    IN IF s.err # NoErr
       THEN (IF s.isNil THEN Panics ELSE Returns(FALSE))
       ELSE IF ~s.isDir THEN Returns(FALSE)
       ELSE IF s.name \in {NameDot, NameDotSlash, NameDotDot} THEN Returns(TRUE)
       ELSE IF HasPrefix(s.name, ".") THEN Returns(FALSE)
       ELSE Returns(TRUE)

(***************************************************************************)
(* The tutorial tree.  A value of interface type Tutorial carries its      *)
(* dynamic type and a pointer; the nil interface has no dynamic type.  A   *)
(* nil *Lesson or *Course stored in the interface is not the nil           *)
(* interface.                                                              *)
(***************************************************************************)
NilTutorial ==
    [type |-> "nil", isNil |-> TRUE, filepath |-> <<>>, content |-> <<>>,
     children |-> <<>>]

NilPtr(type) ==
    [type |-> type, isNil |-> TRUE, filepath |-> <<>>, content |-> <<>>,
     children |-> <<>>]

Lesson(filepath, content) ==
    [type |-> "Lesson", isNil |-> FALSE, filepath |-> filepath,
     content |-> content, children |-> <<>>]

Course(filepath, children) ==
    [type |-> "Course", isNil |-> FALSE, filepath |-> filepath,
     content |-> <<>>, children |-> children]

TopCourse(filepath, children) ==
    [type |-> "TopCourse", isNil |-> FALSE, filepath |-> filepath,
     content |-> <<>>, children |-> children]

\* A variant of Name in which a TopCourse is named after its path.
NameFromPath(t) == Base(t.filepath)

\* Tutorial.Name
Name(t) == IF t.type = "TopCourse" THEN <<>> ELSE Base(t.filepath)

\* t != nil for a Tutorial interface value
IsNilInterface(t) == t.type = "nil"

(***************************************************************************)
(* The scanner.                                                            *)
(***************************************************************************)
scanFile(f, n) ==
    LET r == Read(f, n)
    IN IF r.err # NoErr
       THEN [l |-> NilPtr("Lesson"), err |-> r.err]
       ELSE [l |-> Lesson(n, r.contents), err |-> NoErr]

ScanResult(c, e, p) == [c |-> c, err |-> e, panic |-> p]

\* A variant of AppendItem that puts the new item first.
PrependItem(items, x) == <<x>> \o items

\* items = append(items, x)
AppendItem(items, x) == Append(items, x)

\* A variant of scanDirReturn that keeps a Course without children.
scanDirReturnAlways(d, items) == ScanResult(Course(d, items), NoErr, FALSE)

\* The end of scanDir: a Course when there are items, else no node.
scanDirReturn(d, items) ==
    IF Len(items) > 0
    THEN ScanResult(Course(d, items), NoErr, FALSE)
    ELSE ScanResult(NilPtr("Course"), NoErr, FALSE)

RECURSIVE scanDir(_, _)
RECURSIVE scanDirLoop(_, _, _, _, _)
scanDirLoop(f, d, files, i, items) ==
    IF i > Len(files)
    THEN scanDirReturn(d, items)
    ELSE LET p == Join(d, files[i])
             df == isDesirableFile(f, p)
         IN IF df.panic THEN ScanResult(NilPtr("Course"), NoErr, TRUE)
            ELSE IF df.val
            THEN LET r == scanFile(f, p)
                 IN IF r.err # NoErr
                    THEN ScanResult(NilPtr("Course"), r.err, FALSE)
                    ELSE scanDirLoop(f, d, files, i + 1, AppendItem(items, r.l))
            ELSE LET dd == isDesirableDir(f, p)
                 IN IF dd.panic THEN ScanResult(NilPtr("Course"), NoErr, TRUE)
                    ELSE IF dd.val
                    THEN LET r == scanDir(f, p)
                         IN IF r.panic THEN r
                            ELSE IF r.err # NoErr
                            THEN ScanResult(NilPtr("Course"), r.err, FALSE)
                            ELSE IF ~r.c.isNil
                            THEN scanDirLoop(f, d, files, i + 1,
                                             AppendItem(items, r.c))
                            ELSE scanDirLoop(f, d, files, i + 1, items)
                    ELSE scanDirLoop(f, d, files, i + 1, items)

scanDir(f, d) ==
    LET rd == ReadDir(f, d)
    IN IF rd.err # NoErr
       THEN ScanResult(NilPtr("Course"), rd.err, FALSE)
       ELSE scanDirLoop(f, d, rd.files, 1, <<>>)

LoadResult(t, e, p) == [t |-> t, err |-> e, panic |-> p]

LoadOne(f, root) ==
    LET df == isDesirableFile(f, root)
    IN IF df.panic THEN LoadResult(NilTutorial, NoErr, TRUE)
       ELSE IF df.val
       THEN LET r == scanFile(f, root)
            IN LoadResult(r.l, r.err, FALSE)
       ELSE LET dd == isDesirableDir(f, root)
                r == scanDir(f, root)
            IN IF dd.panic THEN LoadResult(NilTutorial, NoErr, TRUE)
               ELSE IF dd.val /\ r.panic
               THEN LoadResult(NilTutorial, NoErr, TRUE)
               ELSE IF dd.val /\ r.err # NoErr
               THEN LoadResult(NilTutorial, r.err, FALSE)
               ELSE IF dd.val /\ ~r.c.isNil
               THEN LoadResult(TopCourse(root, r.c.children), NoErr, FALSE)
               ELSE LoadResult(NilTutorial,
                               ErrorOf("Cannot process", root), FALSE)

RECURSIVE loadManyLoop(_, _, _, _)
loadManyLoop(f, fileNames, i, items) ==
    IF i > Len(fileNames)
    THEN IF Len(items) > 0
         THEN LoadResult(TopCourse(<<>>, items), NoErr, FALSE)
         ELSE LoadResult(NilTutorial,
                         ErrorOf("Nothing useful found", <<>>), FALSE)
    ELSE LET p == fileNames[i]
             df == isDesirableFile(f, p)
         IN IF df.panic THEN LoadResult(NilTutorial, NoErr, TRUE)
            ELSE IF df.val
            THEN LET r == scanFile(f, p)
                 IN IF r.err # NoErr
                    THEN LoadResult(NilTutorial, r.err, FALSE)
                    ELSE loadManyLoop(f, fileNames, i + 1, AppendItem(items, r.l))
            ELSE LET dd == isDesirableDir(f, p)
                 IN IF dd.panic THEN LoadResult(NilTutorial, NoErr, TRUE)
                    ELSE IF dd.val
                    THEN LET r == scanDir(f, p)
                         IN IF r.panic
                            THEN LoadResult(NilTutorial, NoErr, TRUE)
                            ELSE IF r.err # NoErr
                            THEN LoadResult(NilTutorial, r.err, FALSE)
                            ELSE IF ~r.c.isNil
                            THEN loadManyLoop(f, fileNames, i + 1,
                                              AppendItem(items, r.c))
                            ELSE loadManyLoop(f, fileNames, i + 1, items)
                    ELSE loadManyLoop(f, fileNames, i + 1, items)

LoadMany(f, fileNames) ==
    IF Len(fileNames) = 0
    THEN LoadResult(NilTutorial, ErrorOf("no files?", <<>>), FALSE)
    ELSE IF Len(fileNames) = 1 THEN LoadOne(f, fileNames[1])
    ELSE loadManyLoop(f, fileNames, 1, <<>>)

(***************************************************************************)
(* TutorialPrinter.  A line is kept as its parts: the padding produced by  *)
(* spaces(indent), the name and, for a Lesson, the content sample.         *)
(***************************************************************************)
NewTutorialPrinter == [indent |-> 0, w |-> <<>>]

\* TutorialPrinter.spaces: fmt.Sprintf("%<indent>s", " ")
spaces(indent) == IF indent < 1 THEN <<>> ELSE [i \in 1..indent |-> " "]

\* util.SampleString
SampleString(content, n) ==
    IF Len(content) > n THEN SubSeq(content, 1, n) ELSE content

PrinterVisitLesson(v, l) ==
    [v EXCEPT !.w = Append(@, [kind |-> "Lesson", pad |-> spaces(v.indent),
                               name |-> Name(l),
                               sample |-> SampleString(l.content, SampleLen)])]

RECURSIVE PrinterAccept(_, _)
RECURSIVE PrinterChildren(_, _, _)
PrinterChildren(v, children, i) ==
    IF i > Len(children) THEN v
    ELSE PrinterChildren(PrinterAccept(v, children[i]), children, i + 1)

\* A variant of PrinterVisitCourse that does not restore the indent.
PrinterVisitCourseNoRestore(v, c) ==
    LET v1 == [v EXCEPT !.w = Append(@, [kind |-> "Course",
                                         pad |-> spaces(v.indent),
                                         name |-> Name(c),
                                         sample |-> <<>>])]
        v2 == [v1 EXCEPT !.indent = @ + IndentStep]
    IN PrinterChildren(v2, c.children, 1)

PrinterVisitCourse(v, c) ==
    LET v1 == [v EXCEPT !.w = Append(@, [kind |-> "Course",
                                         pad |-> spaces(v.indent),
                                         name |-> Name(c),
                                         sample |-> <<>>])]
        v2 == [v1 EXCEPT !.indent = @ + IndentStep]
        v3 == PrinterChildren(v2, c.children, 1)
    IN [v3 EXCEPT !.indent = @ - IndentStep]

PrinterVisitTopCourse(v, t) == PrinterChildren(v, t.children, 1)

PrinterAccept(v, t) ==
    IF t.type = "Lesson" THEN PrinterVisitLesson(v, t)
    ELSE IF t.type = "Course" THEN PrinterVisitCourse(v, t)
    ELSE PrinterVisitTopCourse(v, t)

(***************************************************************************)
(* TutorialParser and the lexer it calls.                                  *)
(***************************************************************************)
Labels == {"A", "B"}

\* lexer.Parse: a map from label to the blocks of that label.
Parse(content) ==
    IF content = ContentX THEN ("A" :> <<"a1">>) @@ ("B" :> <<>>)
    ELSE IF content = ContentY THEN ("B" :> <<"b1", "b2">>)
    ELSE <<>>

NewParsedFile(path, blocks) == [path |-> path, blocks |-> blocks]

NewTutorialParser(l) == [label |-> l, parsedFiles |-> <<>>]

\* A variant of ParserVisitLesson that drops an empty block list.
ParserVisitLessonNonEmpty(v, l) ==
    LET m == Parse(l.content)
    IN IF v.label \in DOMAIN m /\ m[v.label] # <<>>
       THEN [v EXCEPT !.parsedFiles =
                        Append(@, NewParsedFile(l.filepath, m[v.label]))]
       ELSE v

ParserVisitLesson(v, l) ==
    LET m == Parse(l.content)
    IN IF v.label \in DOMAIN m
       THEN [v EXCEPT !.parsedFiles =
                        Append(@, NewParsedFile(l.filepath, m[v.label]))]
       ELSE v

RECURSIVE ParserAccept(_, _)
RECURSIVE ParserChildren(_, _, _)
ParserChildren(v, children, i) ==
    IF i > Len(children) THEN v
    ELSE ParserChildren(ParserAccept(v, children[i]), children, i + 1)

ParserVisitCourse(v, c) == ParserChildren(v, c.children, 1)

\* A variant of ParserVisitTopCourse that starts at the second child.
ParserVisitTopCourseSkipFirst(v, t) == ParserChildren(v, t.children, 2)

ParserVisitTopCourse(v, t) == ParserChildren(v, t.children, 1)

ParserAccept(v, t) ==
    IF t.type = "Lesson" THEN ParserVisitLesson(v, t)
    ELSE IF t.type = "Course" THEN ParserVisitCourse(v, t)
    ELSE ParserVisitTopCourse(v, t)

\* TutorialParser.Files
Files(v) == v.parsedFiles

(***************************************************************************)
(* The nav printer.  Every node renders a wrapper, a handle and a body     *)
(* with DOM id n<k>; a Lesson's handle is assureActive('L<i>'), a branch's *)
(* is toggle('n<k>').  An empty name is shown as ".".                      *)
(***************************************************************************)
NewTutorialNavPrinter == [counter |-> 0, lessons |-> 0, depth |-> 0, out |-> <<>>]

NavName(t) == IF Name(t) = <<>> THEN NameDot ELSE Name(t)

NavLine(indent, kind, fn, arg, text) ==
    [indent |-> indent, kind |-> kind, fn |-> fn, arg |-> arg, text |-> text]

\* A variant of NavDisplay that opens the first two levels.
NavDisplayTwoLevels(depth) == IF depth <= 1 THEN "block" ELSE "none"

NavDisplay(depth) == IF depth = 0 THEN "block" ELSE "none"

RECURSIVE NavAccept(_, _)
RECURSIVE NavChildren(_, _, _)
NavChildren(v, children, i) ==
    IF i > Len(children) THEN v
    ELSE NavChildren(NavAccept(v, children[i]), children, i + 1)

NavAccept(v, t) ==
    LET k == v.counter + 1
        ind == 4 * v.depth
        handle == IF t.type = "Lesson"
                  THEN NavLine(ind + 2, "handle", "assureActive", v.lessons,
                               NavName(t))
                  ELSE NavLine(ind + 2, "handle", "toggle", k, NavName(t))
        v1 == [counter |-> k,
               lessons |-> IF t.type = "Lesson" THEN v.lessons + 1
                           ELSE v.lessons,
               depth |-> v.depth + 1,
               out |-> v.out \o
                   << NavLine(ind, "wrapper", "", 0, NavName(t)),
                      handle,
                      NavLine(ind + 2, "body", NavDisplay(v.depth), k, <<>>) >>]
        v2 == NavChildren(v1, t.children, 1)
    IN [v2 EXCEPT !.depth = v.depth,
                  !.out = @ \o << NavLine(ind + 2, "endbody", "", 0, <<>>),
                                  NavLine(ind, "endwrapper", "", 0, <<>>) >>]

(***************************************************************************)
(* The state machine: a filesystem is given, the caller loads a tutorial   *)
(* from paths of its top level and then drives the visitors over the tree. *)
(***************************************************************************)
RECURSIVE TopLevelPaths(_, _)
TopLevelPaths(f, i) ==
    IF i > Len(f) THEN <<>>
    ELSE IF f[i].parent = 0
         THEN << <<f[i].name>> >> \o TopLevelPaths(f, i + 1)
         ELSE TopLevelPaths(f, i + 1)

Init ==
    /\ fs = <<>>
    /\ called = "none"
    /\ args = <<>>
    /\ tree = NilTutorial
    /\ err = NoErr
    /\ panicked = FALSE
    /\ printer = NewTutorialPrinter
    /\ parser = NewTutorialParser("A")
    /\ nav = NewTutorialNavPrinter
    /\ done = {}

Returned(name, fileNames, r) ==
    /\ called' = name
    /\ args' = fileNames
    /\ tree' = r.t
    /\ err' = r.err
    /\ panicked' = r.panic
    /\ UNCHANGED <<fs, printer, parser, nav, done>>

\* The environment: an entry is created before the loader is called.
CreateEntry ==
    /\ called = "none"
    /\ Len(fs) < MaxNodes
    /\ \E nd \in ValidNodes(fs) : fs' = Append(fs, nd)
    /\ UNCHANGED <<called, args, tree, err, panicked, printer, parser, nav, done>>

CallLoadOne ==
    /\ called = "none"
    /\ \E i \in 1..Len(TopLevelPaths(fs, 1)) :
          LET root == TopLevelPaths(fs, 1)[i]
          IN Returned("LoadOne", <<root>>, LoadOne(fs, root))

CallLoadMany ==
    /\ called = "none"
    /\ Returned("LoadMany", TopLevelPaths(fs, 1),
                LoadMany(fs, TopLevelPaths(fs, 1)))

HasTree == called # "none" /\ ~panicked /\ err = NoErr /\ ~IsNilInterface(tree)

RunPrinter ==
    /\ HasTree
    /\ "print" \notin done
    /\ printer' = PrinterAccept(NewTutorialPrinter, tree)
    /\ done' = done \cup {"print"}
    /\ UNCHANGED <<fs, called, args, tree, err, panicked, parser, nav>>

RunParser ==
    /\ HasTree
    /\ "parse" \notin done
    /\ \E l \in Labels : parser' = ParserAccept(NewTutorialParser(l), tree)
    /\ done' = done \cup {"parse"}
    /\ UNCHANGED <<fs, called, args, tree, err, panicked, printer, nav>>

RunNavPrinter ==
    /\ HasTree
    /\ "nav" \notin done
    /\ nav' = NavAccept(NewTutorialNavPrinter, tree)
    /\ done' = done \cup {"nav"}
    /\ UNCHANGED <<fs, called, args, tree, err, panicked, printer, parser>>

Next ==
    \/ CreateEntry
    \/ CallLoadOne
    \/ CallLoadMany
    \/ RunPrinter
    \/ RunParser
    \/ RunNavPrinter

Spec == Init /\ [][Next]_vars

(***************************************************************************)
(* Reference definitions used to state the properties.                     *)
(***************************************************************************)
RECURSIVE PathOf(_, _)
PathOf(f, i) ==
    IF f[i].parent = 0 THEN <<f[i].name>>
    ELSE Append(PathOf(f, f[i].parent), f[i].name)

DirPaths(f) == { PathOf(f, i) : i \in { j \in 1..Len(f) : f[j].isDir } }

RECURSIVE PreOrder(_)
RECURSIVE PreOrderAll(_, _)
PreOrderAll(children, i) ==
    IF i > Len(children) THEN <<>>
    ELSE PreOrder(children[i]) \o PreOrderAll(children, i + 1)

PreOrder(t) == <<t>> \o PreOrderAll(t.children, 1)

NodesOf(t) == LET po == PreOrder(t) IN { po[i] : i \in 1..Len(po) }

IsLesson(t) == t.type = "Lesson"

LessonsOf(t) == SelectSeq(PreOrder(t), IsLesson)

\* What the filters are meant to answer: a candidate whose stat fails is
\* not desirable.
WantFile(f, p) == isDesirableFile(f, p).val
WantDir(f, p) == isDesirableDir(f, p).val

\* The filters answered, and both said no.
Rejected(f, p) ==
    /\ ~isDesirableFile(f, p).panic /\ ~isDesirableFile(f, p).val
    /\ ~isDesirableDir(f, p).panic /\ ~isDesirableDir(f, p).val

\* A directory that can be listed and holds nothing to keep: every entry is
\* filtered out or is a desirable directory that is barren itself.
RECURSIVE Barren(_, _)
Barren(f, d) ==
    LET rd == ReadDir(f, d)
    IN /\ rd.err = NoErr
       /\ \A i \in 1..Len(rd.files) :
             LET p == Join(d, rd.files[i])
                 df == isDesirableFile(f, p)
                 dd == isDesirableDir(f, p)
             IN \/ Rejected(f, p)
                \/ /\ ~df.panic /\ ~df.val
                   /\ ~dd.panic /\ dd.val
                   /\ Barren(f, p)

\* A path that contributes a node: a desirable file, or a desirable
\* directory with an entry that contributes one.
RECURSIVE Productive(_, _)
Productive(f, p) ==
    \/ WantFile(f, p)
    \/ /\ ~WantFile(f, p)
       /\ WantDir(f, p)
       /\ LET files == ReadDir(f, p).files
          IN \E i \in 1..Len(files) : Productive(f, Join(p, files[i]))

RECURSIVE KeptFrom(_, _, _, _)
KeptFrom(f, d, files, i) ==
    IF i > Len(files) THEN <<>>
    ELSE IF Productive(f, Join(d, files[i]))
         THEN <<files[i]>> \o KeptFrom(f, d, files, i + 1)
         ELSE KeptFrom(f, d, files, i + 1)

KeptEntries(f, d) == KeptFrom(f, d, ReadDir(f, d).files, 1)

ContentAt(f, p) == f[Resolve(f, p)].content

\* The node is a Course built by scanDir, or the TopCourse LoadOne made of
\* one.
BuiltByScanDir(n) ==
    \/ n.type = "Course"
    \/ n.type = "TopCourse" /\ n.filepath # <<>>

ChildrenMatch(f, n) ==
    LET kept == KeptEntries(f, n.filepath)
    IN /\ Len(n.children) = Len(kept)
       /\ \A i \in 1..Len(kept) :
             LET p == Join(n.filepath, kept[i])
             IN IF WantFile(f, p)
                THEN n.children[i] = Lesson(p, ContentAt(f, p))
                ELSE /\ n.children[i].type = "Course"
                     /\ n.children[i].filepath = p

Count(seq, type) == Cardinality({ i \in 1..Len(seq) : seq[i].type = type })

SinglePath == Len(args) = 1

(***************************************************************************)
(* C1: every Course of a returned tree has at least one child; scanDir on  *)
(* a directory whose entries are all filtered out, or whose desirable      *)
(* subdirectories prune to nothing, returns no node and no error, and the  *)
(* directory is no node of the tree.                                       *)
(***************************************************************************)
C1_CoursesHaveChildren ==
    /\ HasTree =>
          \A n \in NodesOf(tree) : n.type = "Course" => Len(n.children) >= 1
    /\ called # "none" =>
          \A d \in DirPaths(fs) :
             Barren(fs, d) =>
                /\ scanDir(fs, d) = ScanResult(NilPtr("Course"), NoErr, FALSE)
                /\ HasTree => \A n \in NodesOf(tree) : n.filepath # d

\* A tree was returned although a desirable directory given to LoadMany
\* holds only a desirable subdirectory that is empty.
C1_Witness ==
    /\ HasTree
    /\ called = "LoadMany"
    /\ \E i \in 1..Len(args) :
          /\ WantDir(fs, args[i])
          /\ Barren(fs, args[i])
          /\ \E j \in 1..Len(ReadDir(fs, args[i]).files) :
                WantDir(fs, Join(args[i], ReadDir(fs, args[i]).files[j]))

(***************************************************************************)
(* C9: the children of every Course built by scanDir are, in listing       *)
(* order, the desirable files (as Lessons with the file's content) and the *)
(* desirable directories whose scan is not absent (as Courses).            *)
(***************************************************************************)
C9_ChildrenAreKeptEntries ==
    HasTree =>
       \A n \in NodesOf(tree) : BuiltByScanDir(n) => ChildrenMatch(fs, n)

\* A directory was scanned into two or more children, the first of them the
\* Lesson of b.md.
C9_Witness ==
    /\ HasTree
    /\ \E n \in NodesOf(tree) :
          /\ BuiltByScanDir(n)
          /\ Len(n.children) >= 2
          /\ n.children[1].type = "Lesson"
          /\ n.children[1].content = ContentY

(***************************************************************************)
(* C2 as stated: every returned tree has exactly one TopCourse node, it is *)
(* the root and its Name is empty, also for a single desirable file.       *)
(***************************************************************************)
C2_AlwaysOneTopCourse ==
    HasTree =>
       /\ tree.type = "TopCourse"
       /\ Name(tree) = <<>>
       /\ Count(PreOrder(tree), "TopCourse") = 1

(***************************************************************************)
(* C2 amended: a tree returned for a single path that is a desirable file  *)
(* is that Lesson alone and holds no TopCourse; every other returned tree  *)
(* has exactly one TopCourse node, it is the root and its Name is empty.   *)
(***************************************************************************)
C2_TopCourseUnlessSingleFile ==
    HasTree =>
       IF SinglePath /\ WantFile(fs, args[1])
       THEN /\ tree = Lesson(args[1], ContentAt(fs, args[1]))
            /\ Count(PreOrder(tree), "TopCourse") = 0
       ELSE /\ tree.type = "TopCourse"
            /\ Name(tree) = <<>>
            /\ Count(PreOrder(tree), "TopCourse") = 1

\* LoadOne returned a tree for a directory that holds a subdirectory.
C2_Witness ==
    /\ HasTree
    /\ called = "LoadOne"
    /\ tree.type = "TopCourse"
    /\ tree.filepath # <<>>
    /\ Count(PreOrder(tree), "Course") >= 1

(***************************************************************************)
(* C3 as stated: a filter called on a path whose stat fails returns false, *)
(* so the call never crashes and LoadOne on such a path returns the        *)
(* "Cannot process" error.                                                 *)
(***************************************************************************)
C3_StatFailureIsNotFatal ==
    called # "none" =>
       /\ ~panicked
       /\ (SinglePath /\ Stat(fs, args[1]).err # NoErr) =>
             /\ err = ErrorOf("Cannot process", args[1])
             /\ IsNilInterface(tree)

(***************************************************************************)
(* C4 as stated: an empty list fails; a single path that yields nothing    *)
(* fails with "Cannot process"; two or more paths that all yield nothing   *)
(* fail with "Nothing useful found"; in these cases no tree is returned,   *)
(* and otherwise, when no read can fail, a tree is returned with no error. *)
(***************************************************************************)
NoReadCanFail == \A i \in 1..Len(fs) : ~fs[i].ioErr

NothingUseful == \A i \in 1..Len(args) : ~Productive(fs, args[i])

C4_ErrorOrTree ==
    called # "none" =>
       /\ ~panicked
       /\ Len(args) = 0 => (err # NoErr /\ IsNilInterface(tree))
       /\ (SinglePath /\ NothingUseful /\ NoReadCanFail) =>
             (err = ErrorOf("Cannot process", args[1]) /\ IsNilInterface(tree))
       /\ (Len(args) >= 2 /\ NothingUseful /\ NoReadCanFail) =>
             (err = ErrorOf("Nothing useful found", <<>>)
                /\ IsNilInterface(tree))
       /\ (Len(args) >= 1 /\ ~NothingUseful /\ NoReadCanFail) =>
             (err = NoErr /\ ~IsNilInterface(tree) /\ ~tree.isNil)

(***************************************************************************)
(* C5 as stated: a call that meets a read failure returns that error and   *)
(* no tree.                                                                *)
(***************************************************************************)
IsReadFailure(e) == e.msg \in {"read", "readdir"}

C5_ReadFailureGivesNoTree ==
    (called # "none" /\ ~panicked /\ IsReadFailure(err)) =>
       IsNilInterface(tree)

(***************************************************************************)
(* C6 as stated: a lesson contributes a parsed file iff the lexer's result *)
(* has the target label with a non-empty block list.                       *)
(***************************************************************************)
HasFile(v, path) == \E i \in 1..Len(Files(v)) : Files(v)[i].path = path

C6_AppendsIffNonEmpty ==
    "parse" \in done =>
       \A l \in NodesOf(tree) :
          IsLesson(l) =>
             (HasFile(parser, l.filepath) <=>
                 /\ parser.label \in DOMAIN Parse(l.content)
                 /\ Parse(l.content)[parser.label] # <<>>)

(***************************************************************************)
(* C6 amended: a lesson contributes a parsed file iff the lexer's result   *)
(* has the target label as a key, whether or not its block list is empty;  *)
(* the parsed file holds the lesson's path and exactly the blocks of the   *)
(* target label, and no lesson contributes twice.                          *)
(***************************************************************************)
C6_AppendsIffLabelPresent ==
    "parse" \in done =>
       /\ \A l \in NodesOf(tree) :
             IsLesson(l) =>
                (HasFile(parser, l.filepath) <=>
                    parser.label \in DOMAIN Parse(l.content))
       /\ \A i \in 1..Len(Files(parser)) :
             \E l \in NodesOf(tree) :
                /\ IsLesson(l)
                /\ Files(parser)[i].path = l.filepath
                /\ parser.label \in DOMAIN Parse(l.content)
                /\ Files(parser)[i].blocks = Parse(l.content)[parser.label]
       /\ \A i, j \in 1..Len(Files(parser)) :
             Files(parser)[i].path = Files(parser)[j].path => i = j

\* The parser ran over a tree with a lesson whose lexed result has the
\* label with no blocks, and another lesson with blocks of that label.
C6_Witness ==
    /\ "parse" \in done
    /\ \E i, j \in 1..Len(Files(parser)) :
          /\ Files(parser)[i].blocks = <<>>
          /\ Files(parser)[j].blocks # <<>>

(***************************************************************************)
(* C7: the printer, the parser and the nav printer meet the Lessons of a   *)
(* tree in the same pre-order sequence; the results of Files() are in the  *)
(* order of the printer's Lesson lines, of which they are a subsequence.   *)
(***************************************************************************)
IsLessonLine(line) == line.kind = "Lesson"

IsLessonHandle(line) == line.kind = "handle" /\ line.fn = "assureActive"

HasTargetLabel(l) == parser.label \in DOMAIN Parse(l.content)

RECURSIVE IsSubseq(_, _)
IsSubseq(a, b) ==
    IF Len(a) = 0 THEN TRUE
    ELSE IF Len(b) = 0 THEN FALSE
    ELSE IF a[1] = b[1] THEN IsSubseq(Tail(a), Tail(b))
    ELSE IsSubseq(a, Tail(b))

NamesOf(nodes) == [i \in 1..Len(nodes) |-> Name(nodes[i])]

PrinterLessonNames ==
    LET ls == SelectSeq(printer.w, IsLessonLine)
    IN [i \in 1..Len(ls) |-> ls[i].name]

NavLessonNames ==
    LET hs == SelectSeq(nav.out, IsLessonHandle)
    IN [i \in 1..Len(hs) |-> hs[i].text]

ParsedNames == [i \in 1..Len(Files(parser)) |-> Base(Files(parser)[i].path)]

C7_SameLessonOrder ==
    /\ "print" \in done => PrinterLessonNames = NamesOf(LessonsOf(tree))
    /\ "nav" \in done => NavLessonNames = NamesOf(LessonsOf(tree))
    /\ "parse" \in done =>
          LET want == SelectSeq(LessonsOf(tree), HasTargetLabel)
          IN [i \in 1..Len(Files(parser)) |-> Files(parser)[i].path]
                = [i \in 1..Len(want) |-> want[i].filepath]
    /\ {"print", "parse"} \subseteq done =>
          IsSubseq(ParsedNames, PrinterLessonNames)

\* All three visitors ran over a tree of two Lessons, of which the parser
\* kept one.
C7_Witness ==
    /\ done = {"print", "parse", "nav"}
    /\ Len(LessonsOf(tree)) >= 2
    /\ Len(Files(parser)) = 1

(***************************************************************************)
(* C8: a fresh nav printer gives the k-th container it enters, in          *)
(* pre-order, the id n<k>, counting from 1 by one, shows the first as      *)
(* display: block and every container nested beneath it as display: none.  *)
(***************************************************************************)
IsBody(line) == line.kind = "body"

IsWrapper(line) == line.kind = "wrapper"

NavBodies(v) == SelectSeq(v.out, IsBody)

NavWrappers(v) == SelectSeq(v.out, IsWrapper)

emptyLesson == Lesson(<<>>, <<>>)

course1 == Course(<< <<"h", "e", "y">> >>, <<emptyLesson>>)

\* The two expected outputs of TestNavPrinter.
NavFixtureA ==
    << NavLine(0, "wrapper", "", 0, NameDot),
       NavLine(2, "handle", "assureActive", 0, NameDot),
       NavLine(2, "body", "block", 1, <<>>),
       NavLine(2, "endbody", "", 0, <<>>),
       NavLine(0, "endwrapper", "", 0, <<>>) >>

NavFixtureB ==
    << NavLine(0, "wrapper", "", 0, <<"h", "e", "y">>),
       NavLine(2, "handle", "toggle", 1, <<"h", "e", "y">>),
       NavLine(2, "body", "block", 1, <<>>),
       NavLine(4, "wrapper", "", 0, NameDot),
       NavLine(6, "handle", "assureActive", 0, NameDot),
       NavLine(6, "body", "none", 2, <<>>),
       NavLine(6, "endbody", "", 0, <<>>),
       NavLine(4, "endwrapper", "", 0, <<>>),
       NavLine(2, "endbody", "", 0, <<>>),
       NavLine(0, "endwrapper", "", 0, <<>>) >>

C8_NavIdsAndDisplay ==
    /\ NavAccept(NewTutorialNavPrinter, emptyLesson).out = NavFixtureA
    /\ NavAccept(NewTutorialNavPrinter, course1).out = NavFixtureB
    /\ "nav" \in done =>
          LET bodies == NavBodies(nav)
              wrappers == NavWrappers(nav)
              nodes == PreOrder(tree)
          IN /\ Len(bodies) = Len(nodes)
             /\ Len(wrappers) = Len(nodes)
             /\ \A k \in 1..Len(bodies) :
                   /\ bodies[k].arg = k
                   /\ bodies[k].fn = IF k = 1 THEN "block" ELSE "none"
                   /\ wrappers[k].text = NavName(nodes[k])

\* The nav printer rendered containers at three nesting depths.
C8_Witness ==
    /\ "nav" \in done
    /\ \E k \in 1..Len(NavBodies(nav)) :
          /\ k >= 3
          /\ NavBodies(nav)[k].indent >= 10

(***************************************************************************)
(* C10: a TutorialPrinter that starts with indent 0 emits each line with   *)
(* an indent of 3 times the number of Course ancestors of its node, a      *)
(* TopCourse emits no line, and Accept leaves the indent as it found it.   *)
(***************************************************************************)
RECURSIVE RefLines(_, _)
RECURSIVE RefLinesAll(_, _, _)
RefLinesAll(children, i, courses) ==
    IF i > Len(children) THEN <<>>
    ELSE RefLines(children[i], courses) \o RefLinesAll(children, i + 1, courses)

RefLines(t, courses) ==
    IF t.type = "Lesson"
    THEN << [kind |-> "Lesson", name |-> Name(t), indent |-> 3 * courses] >>
    ELSE IF t.type = "Course"
    THEN << [kind |-> "Course", name |-> Name(t), indent |-> 3 * courses] >>
            \o RefLinesAll(t.children, 1, courses + 1)
    ELSE RefLinesAll(t.children, 1, courses)

C10_IndentIsThreePerCourse ==
    /\ "print" \in done =>
          LET ref == RefLines(tree, 0)
          IN /\ printer.indent = 0
             /\ Len(printer.w) = Len(ref)
             /\ \A i \in 1..Len(ref) :
                   /\ printer.w[i].kind = ref[i].kind
                   /\ printer.w[i].name = ref[i].name
                   /\ Len(printer.w[i].pad) = ref[i].indent
    /\ HasTree =>
          \A n \in NodesOf(tree) : \A i \in {0, 3, 6} :
             PrinterAccept([indent |-> i, w |-> <<>>], n).indent = i

\* The printer emitted the line of a Lesson under a Course under the
\* TopCourse.
C10_Witness ==
    /\ "print" \in done
    /\ \E i \in 1..Len(printer.w) :
          /\ printer.w[i].kind = "Lesson"
          /\ Len(printer.w[i].pad) = 3

====
